---- MODULE Spec2Model ----
(***************************************************************************)
(* Model of src/app.py: the invoice dashboard.  main() loads invoices.csv, *)
(* prioritizes payments, detects anomalies, summarizes the cash-flow risk  *)
(* and, when the button is clicked, forecasts future payments.  The four   *)
(* analysis functions are also modelled as units a caller may invoke in    *)
(* any order on one loaded table.                                          *)
(***************************************************************************)
EXTENDS Integers, Sequences, FiniteSets, TLC

VARIABLES
    csv,      \* invoices.csv: [exists, rows]
    now,      \* datetime.now(): [day, late]; late = time of day after 00:00
    df,       \* the DataFrame in use: [columns, rows]
    pc,       \* position in main(), or "unit" when functions are called directly
    button,   \* what st.button("Run Forecasting") returns in this run
    log,      \* functions main() has invoked in this run, in order
    prev,     \* the call before the last one: [fn, res]
    cur       \* the last call: [fn, res]

vars == <<csv, now, df, pc, button, log, prev, cur>>

\* Largest number of rows of invoices.csv that is explored.
MaxRows == 3

-----------------------------------------------------------------------------
(* Cells and tables *)

\* A date cell as read from the csv: text that parses to a day, or does not.
DateText(d) == [dtype |-> "object", ok |-> TRUE, day |-> d]
Malformed == [dtype |-> "object", ok |-> FALSE, day |-> 0]

BaseColumns ==
    {"Invoice_ID", "Supplier_Name", "Invoice_Date", "Due_Date", "Amount", "Status"}

Records(ids, invDates, dueDates, amounts, statuses) ==
    { [Invoice_ID |-> i, Supplier_Name |-> "S", Invoice_Date |-> DateText(v),
       Due_Date |-> u, Amount |-> a, Status |-> s] :
        i \in ids, v \in invDates, u \in dueDates, a \in amounts, s \in statuses }

Tables(rows) == UNION { [1..n -> rows] : n \in 0..MaxRows }

NoTable == [columns |-> {}, rows |-> <<>>]
NoCall == [fn |-> "", res |-> [outcome |-> "", raised_by |-> "", value |-> <<>>]]

Ok(v) == [outcome |-> "ok", raised_by |-> "", value |-> v]
Raised(e, by) == [outcome |-> e, raised_by |-> by, value |-> <<>>]

\* pd.read_csv("invoices.csv"); st.cache_data hands every run its own copy
load_data(file) ==
    IF file.exists
    THEN Ok([columns |-> BaseColumns, rows |-> file.rows])
    ELSE Raised("FileNotFoundError", "pd.read_csv")

\* pd.to_datetime on one column: every cell must parse
CanParse(rows, col) == \A i \in 1..Len(rows) : rows[i][col].ok
to_datetime(cell) == [dtype |-> "datetime64", ok |-> TRUE, day |-> cell.day]

-----------------------------------------------------------------------------
(* prioritize_payments *)

\* (due - datetime.now()).dt.days: whole days, rounded down
DueInDays(due, t) == due.day - t.day - (IF t.late THEN 1 ELSE 0)

\* the thresholds taken inclusively: 5 still High, 10 still Medium
Priority_inclusive(d) ==
    IF d <= 5 THEN "High" ELSE IF d <= 10 THEN "Medium" ELSE "Low"

Priority(d) == IF d < 5 THEN "High" ELSE IF d < 10 THEN "Medium" ELSE "Low"

\* the day count written over Due_Date as well as into Due_In_Days
annotate_over_due_date(t, n) ==
    [columns |-> t.columns \cup {"Due_In_Days", "Priority"},
     rows |-> [i \in 1..Len(t.rows) |->
                 LET d == DueInDays(t.rows[i].Due_Date, n)
                 IN  [Due_In_Days |-> d, Priority |-> Priority(d),
                      Due_Date |-> [t.rows[i].Due_Date EXCEPT !.day = d]]
                     @@ t.rows[i]]]

\* the table after lines 15-17: two columns added to df itself
annotate(t, n) ==
    [columns |-> t.columns \cup {"Due_In_Days", "Priority"},
     rows |-> [i \in 1..Len(t.rows) |->
                 LET d == DueInDays(t.rows[i].Due_Date, n)
                 IN  [Due_In_Days |-> d, Priority |-> Priority(d)] @@ t.rows[i]]]

\* the labels as Python strings (code points), compared as str compares
CodePoints(p) ==
    CASE p = "High"   -> <<72, 105, 103, 104>>
      [] p = "Medium" -> <<77, 101, 100, 105, 117, 109>>
      [] p = "Low"    -> <<76, 111, 119>>

RECURSIVE StrLess(_, _)
StrLess(s, t) ==
    IF t = <<>> THEN FALSE
    ELSE IF s = <<>> THEN TRUE
    ELSE IF Head(s) # Head(t) THEN Head(s) < Head(t)
    ELSE StrLess(Tail(s), Tail(t))

\* the key of sort_values(by=['Priority', 'Due_In_Days'])
KeyLess(a, b) ==
    \/ StrLess(CodePoints(a.Priority), CodePoints(b.Priority))
    \/ a.Priority = b.Priority /\ a.Due_In_Days < b.Due_In_Days

RECURSIVE InsertRow(_, _)
InsertRow(r, sorted) ==
    IF sorted = <<>> THEN <<r>>
    ELSE IF KeyLess(r, Head(sorted)) THEN <<r>> \o sorted
    ELSE <<Head(sorted)>> \o InsertRow(r, Tail(sorted))

\* a stable sort: a row goes after the rows that do not sort after it
RECURSIVE sort_values(_)
sort_values(rows) ==
    IF rows = <<>> THEN <<>>
    ELSE InsertRow(rows[Len(rows)], sort_values(SubSeq(rows, 1, Len(rows) - 1)))

prioritize_payments(t, n) ==
    IF ~ CanParse(t.rows, "Due_Date")
    THEN Raised("ValueError", "pd.to_datetime")
    ELSE Ok([columns |-> annotate(t, n).columns,
             rows |-> sort_values(annotate(t, n).rows)])

\* df as prioritize_payments leaves it
prioritize_payments_df(t, n) ==
    IF CanParse(t.rows, "Due_Date") THEN annotate(t, n) ELSE t

-----------------------------------------------------------------------------
(* detect_anomalies *)

\* keep='first': the first occurrence of an id is not marked
duplicated_keep_first(rows, i) ==
    \E j \in 1..(i - 1) : rows[j].Invoice_ID = rows[i].Invoice_ID

\* df.duplicated(subset=['Invoice_ID'], keep=False)
duplicated(rows, i) ==
    \E j \in 1..Len(rows) : j # i /\ rows[j].Invoice_ID = rows[i].Invoice_ID

RECURSIVE InsertAmount(_, _)
InsertAmount(a, sorted) ==
    IF sorted = <<>> THEN <<a>>
    ELSE IF a < Head(sorted) THEN <<a>> \o sorted
    ELSE <<Head(sorted)>> \o InsertAmount(a, Tail(sorted))

RECURSIVE SortedAmounts(_)
SortedAmounts(rows) ==
    IF rows = <<>> THEN <<>>
    ELSE InsertAmount(rows[Len(rows)].Amount,
                      SortedAmounts(SubSeq(rows, 1, Len(rows) - 1)))

\* df['Amount'] > df['Amount'].quantile(0.95), linear interpolation at
\* position 0.95 * (n - 1), both sides scaled by 20; NaN on an empty column
AboveQuantile(rows, i) ==
    LET n == Len(rows)
        s == SortedAmounts(rows)
        lo == (19 * (n - 1)) \div 20
        fr == (19 * (n - 1)) % 20
        hi == IF lo + 1 < n THEN lo + 1 ELSE lo
    IN  /\ n > 0
        /\ 20 * rows[i].Amount > 20 * s[lo + 1] + fr * (s[hi + 1] - s[lo + 1])

\* ", ".join(selection['Invoice_ID']): the ids of the selected rows, in row order
RECURSIVE IdsWhere(_, _, _)
IdsWhere(rows, mask, i) ==
    IF i > Len(rows) THEN <<>>
    ELSE (IF mask[i] THEN <<rows[i].Invoice_ID>> ELSE <<>>)
         \o IdsWhere(rows, mask, i + 1)

Finding(msg, ids) ==
    IF ids = <<>> THEN <<>> ELSE <<[msg |-> msg, ids |-> ids]>>

detect_anomalies(t) ==
    LET duplicates == [i \in 1..Len(t.rows) |-> duplicated(t.rows, i)]
        high_amounts == [i \in 1..Len(t.rows) |-> AboveQuantile(t.rows, i)]
    IN  Ok(Finding("Duplicate invoices detected: ", IdsWhere(t.rows, duplicates, 1))
           \o Finding("Unusually high amounts detected in invoices: ",
                      IdsWhere(t.rows, high_amounts, 1)))

-----------------------------------------------------------------------------
(* forecast_cash_flow_risks *)

\* selection['Amount'].sum()
RECURSIVE SumAmount(_)
SumAmount(rows) ==
    IF rows = <<>> THEN 0 ELSE Head(rows).Amount + SumAmount(Tail(rows))

IsPending(r) == r.Status = "Pending"
IsDueSoon(r) == r.Due_In_Days < 10 /\ r.Status = "Pending"

forecast_cash_flow_risks(t) ==
    IF "Due_In_Days" \notin t.columns
    THEN Raised("KeyError", "forecast_cash_flow_risks")
    ELSE LET total_pending == SumAmount(SelectSeq(t.rows, IsPending))
             due_soon == SumAmount(SelectSeq(t.rows, IsDueSoon))
         IN  Ok([Total_Pending_Amount |-> total_pending,
                 Amount_Due_Soon |-> due_soon,
                 \* due_soon > 0.5 * total_pending
                 Risk_Level |-> IF 2 * due_soon > total_pending
                                THEN "High" ELSE "Low"])

-----------------------------------------------------------------------------
(* forecast_future_payments *)

PendingDays(rows) ==
    { rows[i].Invoice_Date.day : i \in { k \in 1..Len(rows) : IsPending(rows[k]) } }

SumOnDay(rows, d) ==
    LET OnDay(r) == IsPending(r) /\ r.Invoice_Date.day = d
    IN  SumAmount(SelectSeq(rows, OnDay))

RECURSIVE DailySeries(_, _)
DailySeries(rows, days) ==
    IF days = {} THEN <<>>
    ELSE LET d == CHOOSE x \in days : \A y \in days : x <= y
         IN  <<[ds |-> d, y |-> SumOnDay(rows, d)]>>
             \o DailySeries(rows, days \ {d})

\* groupby('Invoice_Date')['Amount'].sum().reset_index() over the Pending rows
daily_pending(t) == DailySeries(t.rows, PendingDays(t.rows))

\* Prophet().fit(history), make_future_dataframe(periods=30), predict:
\* the library refuses a history of fewer than 2 rows
ProphetFit(history) ==
    IF Len(history) < 2
    THEN Raised("ValueError", "Prophet.fit")
    ELSE Ok([history |-> history, periods |-> 30])

forecast_future_payments(t) ==
    IF ~ CanParse(t.rows, "Invoice_Date")
    THEN Raised("ValueError", "pd.to_datetime")
    ELSE ProphetFit(daily_pending(t))

\* df as forecast_future_payments leaves it: Invoice_Date holds datetimes
forecast_future_payments_df(t) ==
    IF ~ CanParse(t.rows, "Invoice_Date") THEN t
    ELSE [t EXCEPT !.rows =
            [i \in 1..Len(t.rows) |->
               [t.rows[i] EXCEPT !.Invoice_Date = to_datetime(@)]]]

-----------------------------------------------------------------------------
(* Calls *)

\* one call, recorded: the call before it moves to prev
Called(fn, res) ==
    /\ prev' = cur
    /\ cur' = [fn |-> fn, res |-> res]

\* the DataFrame a call of fn leaves behind
After(fn, t, n) ==
    CASE fn = "prioritize_payments" -> prioritize_payments_df(t, n)
      [] fn = "forecast_future_payments" -> forecast_future_payments_df(t)
      [] OTHER -> t

Result(fn, t, n) ==
    CASE fn = "prioritize_payments" -> prioritize_payments(t, n)
      [] fn = "detect_anomalies" -> detect_anomalies(t)
      [] fn = "forecast_cash_flow_risks" -> forecast_cash_flow_risks(t)
      [] fn = "forecast_future_payments" -> forecast_future_payments(t)

-----------------------------------------------------------------------------
(* main(): one run of the script per interaction *)

\* an exception leaves main(): nothing below the failing line runs
Step(fn, next) ==
    /\ Called(fn, Result(fn, df, now))
    /\ df' = After(fn, df, now)
    /\ log' = Append(log, fn)
    /\ pc' = IF Result(fn, df, now).outcome = "ok" THEN next ELSE "aborted"
    /\ UNCHANGED <<csv, now, button>>

Load ==
    /\ pc = "load"
    /\ Called("load_data", load_data(csv))
    /\ log' = Append(log, "load_data")
    /\ IF load_data(csv).outcome = "ok"
       THEN df' = load_data(csv).value /\ pc' = "prioritize"
       ELSE df' = df /\ pc' = "aborted"
    /\ UNCHANGED <<csv, now, button>>

Prioritize == pc = "prioritize" /\ Step("prioritize_payments", "detect")

Detect == pc = "detect" /\ Step("detect_anomalies", "risk")

Risk == pc = "risk" /\ Step("forecast_cash_flow_risks", "button")

Button ==
    /\ pc = "button"
    /\ pc' = IF button THEN "forecast" ELSE "done"
    /\ UNCHANGED <<csv, now, df, button, log, prev, cur>>

Forecast == pc = "forecast" /\ Step("forecast_future_payments", "done")

\* the next interaction reruns the script from the top
Rerun ==
    /\ pc \in {"done", "aborted"}
    /\ pc' = "load"
    /\ button' \in BOOLEAN
    /\ df' = NoTable
    /\ log' = <<>>
    /\ prev' = NoCall
    /\ cur' = NoCall
    /\ UNCHANGED <<csv, now>>

Next == Load \/ Prioritize \/ Detect \/ Risk \/ Button \/ Forecast \/ Rerun

-----------------------------------------------------------------------------
(* The functions called directly on one loaded table *)

Call(fn) ==
    /\ pc = "unit"
    /\ Called(fn, Result(fn, df, now))
    /\ df' = After(fn, df, now)
    /\ UNCHANGED <<csv, now, pc, button, log>>

CallPrioritize == Call("prioritize_payments")
CallDetect == Call("detect_anomalies")
CallRisk == Call("forecast_cash_flow_risks")
CallForecast == Call("forecast_future_payments")

NextCalls == CallPrioritize \/ CallDetect \/ CallRisk \/ CallForecast

-----------------------------------------------------------------------------
(* Inputs *)

Clock == { [day |-> 0, late |-> l] : l \in BOOLEAN }

\* main() on any file, present or missing
RowsMain ==
    Records({"A"}, {1, 2}, {DateText(5), Malformed}, {1}, {"Pending", "Paid"})

Init ==
    /\ csv \in { [exists |-> TRUE, rows |-> r] : r \in Tables(RowsMain) }
               \cup { [exists |-> FALSE, rows |-> <<>>] }
    /\ now \in Clock
    /\ button \in BOOLEAN
    /\ pc = "load"
    /\ df = NoTable
    /\ log = <<>>
    /\ prev = NoCall
    /\ cur = NoCall

Spec == Init /\ [][Next]_vars

\* a table loaded from a file of the given records, nothing called yet
InitCalls(records) ==
    /\ csv \in { [exists |-> TRUE, rows |-> r] : r \in Tables(records) }
    /\ now \in Clock
    /\ button = FALSE
    /\ pc = "unit"
    /\ df = load_data(csv).value
    /\ log = <<>>
    /\ prev = NoCall
    /\ cur = NoCall

RowsPrioritize ==
    Records({"A", "B"}, {1}, {DateText(0), DateText(5), DateText(10)}, {1}, {"Pending"})
InitPrioritize == InitCalls(RowsPrioritize)
SpecPrioritize == InitPrioritize /\ [][NextCalls]_vars

RowsAnomalies ==
    Records({"A", "B", "C"}, {1}, {DateText(5)}, {1, 2}, {"Pending"})
InitAnomalies == InitCalls(RowsAnomalies)
SpecAnomalies == InitAnomalies /\ [][NextCalls]_vars

RowsRisk ==
    Records({"A"}, {1}, {DateText(5), DateText(10)}, {1, 2}, {"Pending", "Paid"})
InitRisk == InitCalls(RowsRisk)
SpecRisk == InitRisk /\ [][NextCalls]_vars

RowsForecast ==
    Records({"A"}, {1, 2, 3}, {DateText(5)}, {1}, {"Pending", "Paid"})
InitForecast == InitCalls(RowsForecast)
SpecForecast == InitForecast /\ [][NextCalls]_vars

RowsRepeat ==
    Records({"A", "B"}, {1}, {DateText(5), DateText(10)}, {1, 2}, {"Pending"})
InitRepeat == InitCalls(RowsRepeat)
SpecRepeat == InitRepeat /\ [][NextCalls]_vars

-----------------------------------------------------------------------------
(* Properties *)

PriorityRank(p) == CASE p = "High" -> 1 [] p = "Medium" -> 2 [] p = "Low" -> 3

Returned(fn) == cur.fn = fn /\ cur.res.outcome = "ok"

Occurrences(seq, x) == Cardinality({ i \in 1..Len(seq) : seq[i] = x })

\* the three analyses main() runs on every load
Analyses == {"prioritize_payments", "detect_anomalies", "forecast_cash_flow_risks"}

\* two outcomes of one function are the same outcome
SameResult(a, b) ==
    /\ a.outcome = b.outcome
    /\ a.raised_by = b.raised_by
    /\ a.outcome = "ok" => a.value = b.value

\* C1: the rows prioritize_payments returns are ordered High, then Medium,
\* then Low, and by Due_In_Days ascending within one priority.
C1_OrderedByRank ==
    Returned("prioritize_payments") =>
        \A i, j \in 1..Len(cur.res.value.rows) :
            i < j =>
                LET a == cur.res.value.rows[i]
                    b == cur.res.value.rows[j]
                IN  /\ PriorityRank(a.Priority) <= PriorityRank(b.Priority)
                    /\ a.Priority = b.Priority => a.Due_In_Days <= b.Due_In_Days

\* C2: after prioritize_payments has returned in main(), the loaded table
\* still has the columns and cells it was loaded with.
C2_LoadedTableUntouched ==
    pc \in {"detect", "risk", "button"} => df = load_data(csv).value

\* C3: forecast_cash_flow_risks returns a result on a table prioritize_payments
\* was never called on, the same result as after prioritize_payments.
C3_RiskIndependentOfPrioritize ==
    cur.fn = "forecast_cash_flow_risks" =>
        /\ cur.res.outcome = "ok"
        /\ SameResult(cur.res,
               forecast_cash_flow_risks(
                   prioritize_payments_df(load_data(csv).value, now)))

\* C4: only a failure of the loader aborts a run of main(); after any other
\* failure the components that follow still run.
C4_OnlyLoaderAborts ==
    pc = "aborted" => cur.fn = "load_data"

\* C5: with fewer than 2 distinct Pending invoice dates the forecast ends
\* with InsufficientDataError, raised by forecast_future_payments itself
\* before anything is fitted.
C5_InsufficientData ==
    (cur.fn = "forecast_future_payments" /\ Cardinality(PendingDays(csv.rows)) < 2) =>
        /\ cur.res.outcome = "InsufficientDataError"
        /\ cur.res.raised_by = "forecast_future_payments"

\* C6: in a run of main() the forecast is invoked exactly when the button
\* is set and only after load, prioritize, detect and risk; once the table
\* is loaded the three analyses are each invoked exactly once in the run.
C6_ForecastOnlyOnTrigger ==
    /\ \A i \in 1..Len(log) :
           log[i] = "forecast_future_payments" =>
               /\ button
               /\ Analyses \cup {"load_data"} \subseteq { log[k] : k \in 1..(i - 1) }
    /\ \A f \in Analyses : Occurrences(log, f) <= 1
    /\ (pc \in {"done", "aborted"} /\ csv.exists) =>
           /\ \A f \in Analyses : Occurrences(log, f) = 1
           /\ button <=> Occurrences(log, "forecast_future_payments") = 1

\* C7: every returned row is High when Due_In_Days < 5, Medium when
\* 5 <= Due_In_Days < 10 and Low when Due_In_Days >= 10.
C7_PriorityThresholds ==
    Returned("prioritize_payments") =>
        \A i \in 1..Len(cur.res.value.rows) :
            LET r == cur.res.value.rows[i]
                d == r.Due_In_Days
            IN  /\ d < 5 => r.Priority = "High"
                /\ (5 <= d /\ d < 10) => r.Priority = "Medium"
                /\ d >= 10 => r.Priority = "Low"
                /\ \E k \in 1..Len(df.rows) :
                       /\ df.rows[k].Invoice_ID = r.Invoice_ID
                       /\ df.rows[k].Due_Date = r.Due_Date
                       /\ d = DueInDays(df.rows[k].Due_Date, now)

C7_Witness ==
    /\ Returned("prioritize_payments")
    /\ \E i, j, k \in 1..Len(cur.res.value.rows) :
           /\ cur.res.value.rows[i].Due_In_Days = 4
           /\ cur.res.value.rows[i].Priority = "High"
           /\ cur.res.value.rows[j].Due_In_Days = 9
           /\ cur.res.value.rows[j].Priority = "Medium"
           /\ cur.res.value.rows[k].Due_In_Days = 0 - 1
           /\ cur.res.value.rows[k].Priority = "High"

\* C8: forecast_cash_flow_risks returns the sum of the Pending amounts, the
\* sum of the Pending amounts due in fewer than 10 days, and High exactly
\* when the second is more than half of the first.
C8_RiskSummary ==
    cur.fn = "forecast_cash_flow_risks" =>
        LET Soon(r) == IsPending(r) /\ DueInDays(r.Due_Date, now) < 10
            total == SumAmount(SelectSeq(csv.rows, IsPending))
            soon == SumAmount(SelectSeq(csv.rows, Soon))
        IN  /\ cur.res.outcome = "ok"
            /\ cur.res.value.Total_Pending_Amount = total
            /\ cur.res.value.Amount_Due_Soon = soon
            /\ cur.res.value.Risk_Level = "High" <=> 2 * soon > total
            /\ cur.res.value.Risk_Level \in {"High", "Low"}

C10_RepeatedCallSameResult ==
    (prev.fn = cur.fn /\ cur.fn \in Analyses) => SameResult(prev.res, cur.res)

C10_Witness ==
    /\ prev.fn = "prioritize_payments"
    /\ cur.fn = "prioritize_payments"
    /\ cur.res.outcome = "ok"
    /\ now.late
    /\ Len(df.rows) >= 2
    /\ cur.res.value.rows # df.rows

====
